---------------------------- MODULE Spec2Model ----------------------------
(***************************************************************************)
(* Model of texture_palette.py (Blender "Texture Palette" add-on): the     *)
(* atlas grid addressing (MultiTexProps), the UV rect transforms (Utils),  *)
(* the assign / select operators, the rasterizer (buildMultiTexMaterial)   *)
(* and the mesh combiner (MultiTexCombineMeshes).                          *)
(*                                                                         *)
(* Numbers: Python ints are unbounded and are modelled by TLA+ integers.   *)
(* Python floats are modelled by exact rationals <<n, d>> (d > 0, lowest   *)
(* terms), so the model states what the arithmetic computes before         *)
(* rounding; int(x) is truncation toward zero, as in Python.               *)
(***************************************************************************)
EXTENDS Integers, Sequences, FiniteSets, TLC

(***************************************************************************)
(* Rational arithmetic.                                                    *)
(***************************************************************************)
Abs(x) == IF x < 0 THEN -x ELSE x

RECURSIVE Gcd(_, _)
Gcd(a, b) == IF b = 0 THEN a ELSE Gcd(b, a % b)

\* the rational n/d in lowest terms with a positive denominator (d # 0)
Rat(n, d) ==
  LET g == Gcd(Abs(n), Abs(d))
      s == IF d < 0 THEN -1 ELSE 1
  IN  << (s * n) \div g, (s * d) \div g >>

RInt(i) == << i, 1 >>
RAdd(x, y) == Rat(x[1] * y[2] + y[1] * x[2], x[2] * y[2])
RSub(x, y) == Rat(x[1] * y[2] - y[1] * x[2], x[2] * y[2])
RMul(x, y) == Rat(x[1] * y[1], x[2] * y[2])
RDiv(x, y) == Rat(x[1] * y[2], x[2] * y[1])
RLess(x, y) == x[1] * y[2] < y[1] * x[2]
RLeq(x, y) == x[1] * y[2] <= y[1] * x[2]
RMin(x, y) == IF RLess(y, x) THEN y ELSE x
RMax(x, y) == IF RLess(x, y) THEN y ELSE x
\* mathematical floor of a rational
RFloor(x) == x[1] \div x[2]

\* Python int(x) of a float: truncation toward zero
PyInt(x) == IF x[1] >= 0 THEN x[1] \div x[2] ELSE -((-x[1]) \div x[2])

(***************************************************************************)
(* Property ranges declared by MultiTexProps.  A value assigned to an      *)
(* IntProperty is stored clamped to its [min, max].                        *)
(***************************************************************************)
GridMin == 1
GridMax == 16
CellSizeMin == 1
CellSizeMax == 32
SetIntProp(v, lo, hi) == IF v < lo THEN lo ELSE IF v > hi THEN hi ELSE v

(***************************************************************************)
(* MultiTexProps methods; self is the property record.                     *)
(***************************************************************************)
getTextureSize(self) ==
  << self.numColumns * self.cellSize, self.numRows * self.cellSize >>

\* the variant left commented out in the source: rows counted from the top
getMatRowColTopDown(self, matIndex) ==
  << matIndex % self.numColumns, PyInt(Rat(matIndex, self.numColumns)) >>

getMatRowCol(self, matIndex) ==
  LET matX == matIndex % self.numColumns
      matY == self.numRows - 1 - PyInt(Rat(matIndex, self.numColumns))
  IN  << matX, matY >>

\* the variant left commented out in the source: rows counted from the top
getMatIndexFromRowColTopDown(self, rowCol) ==
  rowCol[1] + rowCol[2] * self.numColumns

getMatIndexFromRowCol(self, rowCol) ==
  rowCol[1] + (self.numRows - 1 - rowCol[2]) * self.numColumns

getRowColRect(self, rowCol) ==
  LET x0 == rowCol[1] * self.cellSize
      y0 == rowCol[2] * self.cellSize
  IN  << x0, y0, x0 + self.cellSize, y0 + self.cellSize >>

\* variant that divides both axes by the texture width
getRowColRectUvSquare(self, rowCol) ==
  LET pixelRect == getRowColRect(self, rowCol)
      sizes == getTextureSize(self)
  IN  << Rat(pixelRect[1], sizes[1]), Rat(pixelRect[2], sizes[1]),
         Rat(pixelRect[3], sizes[1]), Rat(pixelRect[4], sizes[1]) >>

getRowColRectUv(self, rowCol) ==
  LET pixelRect == getRowColRect(self, rowCol)
      sizes == getTextureSize(self)
  IN  << Rat(pixelRect[1], sizes[1]), Rat(pixelRect[2], sizes[2]),
         Rat(pixelRect[3], sizes[1]), Rat(pixelRect[4], sizes[2]) >>

getMatRect(self, matIndex) == getRowColRect(self, getMatRowCol(self, matIndex))

getMatRectUv(self, matIndex) == getRowColRectUv(self, getMatRowCol(self, matIndex))

\* variant with the two grid dimensions exchanged
getRowColFromUvSwapped(self, uv) ==
  << PyInt(RMul(uv[1], RInt(self.numRows))),
     PyInt(RMul(uv[2], RInt(self.numColumns))) >>

getRowColFromUv(self, uv) ==
  << PyInt(RMul(uv[1], RInt(self.numColumns))),
     PyInt(RMul(uv[2], RInt(self.numRows))) >>

(***************************************************************************)
(* Utils: UV rect transforms.                                              *)
(***************************************************************************)
MarginDefault == Rat(1, 4)

\* variant that leaves the rect as it is
uvRectNoMargin(uvRect, margin) == uvRect

uvRectApplyMargin(uvRect, margin) ==
  LET half == Rat(1, 2)
      midPoint == << RMul(RAdd(uvRect[1], uvRect[3]), half),
                     RMul(RAdd(uvRect[2], uvRect[4]), half) >>
      scale == RSub(RInt(1), margin)
  IN  << RAdd(RMul(RSub(uvRect[1], midPoint[1]), scale), midPoint[1]),
         RAdd(RMul(RSub(uvRect[2], midPoint[2]), scale), midPoint[2]),
         RAdd(RMul(RSub(uvRect[3], midPoint[1]), scale), midPoint[1]),
         RAdd(RMul(RSub(uvRect[4], midPoint[2]), scale), midPoint[2]) >>

applyUvRect(uv, uvRect) ==
  << RAdd(uvRect[1], RMul(RSub(uvRect[3], uvRect[1]), uv[1])),
     RAdd(uvRect[2], RMul(RSub(uvRect[4], uvRect[2]), uv[2])) >>

unApplyUvRect(uv, uvRect) ==
  << RDiv(RSub(uv[1], uvRect[1]), RSub(uvRect[3], uvRect[1])),
     RDiv(RSub(uv[2], uvRect[2]), RSub(uvRect[4], uvRect[2])) >>


(***************************************************************************)
(* State.                                                                  *)
(*   props     MultiTexProps of the context material                       *)
(*   faces     faces of the edit mesh: select flag and one UV per loop     *)
(*   images    images of the three texture nodes of the context material   *)
(*   objects   objects of the scene (MultiTexCombineMeshes)                *)
(*   matData   bpy.data.materials (MultiTexCombineMeshes)                  *)
(*   log       the operators run so far, oldest first: what each was given,*)
(*             the state it started from and what it reported              *)
(*   call      the last call of a MultiTexProps method and its result      *)
(*   clipboard the text on the window manager's clipboard                  *)
(***************************************************************************)
VARIABLES props, faces, images, objects, matData, log, call, clipboard

vars == << props, faces, images, objects, matData, log, call, clipboard >>

\* Strings are sequences of code points; "" is << >>.
\* MultiTexSubMatProps defaults (name is the built-in PropertyGroup name)
DefaultSubMat ==
  [ subMatName |-> << >>, name |-> << >>,
    albedo |-> << RInt(1), RInt(1), RInt(1) >>, alpha |-> RInt(1),
    metallic |-> RInt(0), roughness |-> Rat(1, 2),
    emissive |-> << RInt(0), RInt(0), RInt(0) >>,
    emission_strength |-> RInt(1) ]

CellSizeDefault == 4

\* MultiTexProps defaults
DefaultProps ==
  [ numColumns |-> 4, numRows |-> 4, cellSize |-> CellSizeDefault,
    maxEmissionStrength |-> 1,
    useRgbRoughness |-> TRUE, useSmoothness |-> FALSE,
    useShortTexNames |-> FALSE, useTga |-> FALSE, compactUi |-> FALSE,
    submats |-> << >> ]

NoCall == [ op |-> "none" ]
\* the empty clipboard text
EmptyText == [ kind |-> "empty" ]
NoImages == [ albedo |-> << >>, metallic |-> << >>, emissive |-> << >> ]

(***************************************************************************)
(* SpecGrid: the index <-> (col,row) methods applied to every index and    *)
(* every cell of every grid the properties allow, one call per behaviour.  *)
(***************************************************************************)
CellSizes == { CellSizeMin, CellSizeDefault, CellSizeMax }

InitGrid ==
  /\ props \in { [ DefaultProps EXCEPT !.numColumns = c, !.numRows = r,
                                       !.cellSize = s ] :
                 c \in GridMin..GridMax, r \in GridMin..GridMax,
                 s \in CellSizes }
  /\ faces = << >>
  /\ images = NoImages
  /\ objects = << >>
  /\ matData = << >>
  /\ log = << >>
  /\ call = NoCall
  /\ clipboard = EmptyText

\* getMatRowCol(index), then getMatIndexFromRowCol of its result
CallGetMatRowCol ==
  \E index \in 0..(props.numColumns * props.numRows - 1) :
    /\ call = NoCall
    /\ call' = [ op |-> "getMatRowCol", index |-> index,
                 rowCol |-> getMatRowCol(props, index),
                 indexBack |->
                   getMatIndexFromRowCol(props, getMatRowCol(props, index)) ]
    /\ UNCHANGED << props, faces, images, objects, matData, log, clipboard >>

\* getMatIndexFromRowCol((col,row)), then getMatRowCol of its result
CallGetMatIndexFromRowCol ==
  \E col \in 0..(props.numColumns - 1), row \in 0..(props.numRows - 1) :
    /\ call = NoCall
    /\ call' = [ op |-> "getMatIndexFromRowCol", rowCol |-> << col, row >>,
                 index |-> getMatIndexFromRowCol(props, << col, row >>),
                 rowColBack |->
                   getMatRowCol(props,
                                getMatIndexFromRowCol(props, << col, row >>)) ]
    /\ UNCHANGED << props, faces, images, objects, matData, log, clipboard >>

NextGrid == CallGetMatRowCol \/ CallGetMatIndexFromRowCol

SpecGrid == InitGrid /\ [][NextGrid]_vars

\* C1: on every grid with numColumns, numRows in [1,16], getMatRowCol and
\* getMatIndexFromRowCol are mutual inverses on the indices and the cells of
\* the grid, with col = index mod numColumns and
\* row = numRows-1 - floor(index/numColumns) (row counted from the bottom).
C1_MutualInverse ==
  /\ call.op = "getMatRowCol" =>
       /\ call.indexBack = call.index
       /\ call.rowCol = << call.index % props.numColumns,
                           props.numRows - 1
                             - (call.index \div props.numColumns) >>
       /\ call.rowCol[1] \in 0..(props.numColumns - 1)
       /\ call.rowCol[2] \in 0..(props.numRows - 1)
  /\ call.op = "getMatIndexFromRowCol" =>
       /\ call.rowColBack = call.rowCol
       /\ call.index = call.rowCol[1]
            + (props.numRows - 1 - call.rowCol[2]) * props.numColumns
       /\ call.index \in 0..(props.numColumns * props.numRows - 1)

\* a 16x16 grid where both round trips were taken on a cell that is neither
\* in the first column nor in the bottom or top row
C1_Witness ==
  /\ props.numColumns = GridMax /\ props.numRows = GridMax
  /\ \/ call.op = "getMatRowCol" /\ call.index = 37
        /\ call.rowCol = << 5, 13 >>
     \/ call.op = "getMatIndexFromRowCol" /\ call.rowCol = << 5, 13 >>
        /\ call.index = 37


(***************************************************************************)
(* Edit-mesh operators.  A face is [select, loops], loops being the UV of  *)
(* each of its loops in order.                                             *)
(***************************************************************************)
RECURSIVE SelectedUvs(_)
\* the UVs visited by "for face in bm.faces: if face.select: for loop ..."
SelectedUvs(fs) ==
  IF fs = << >> THEN << >>
  ELSE (IF Head(fs).select THEN Head(fs).loops ELSE << >>)
         \o SelectedUvs(Tail(fs))

RECURSIVE UvMin(_)
\* minUv after the loop over a non-empty sequence of UVs
UvMin(uvs) ==
  IF Len(uvs) = 1 THEN uvs[1]
  ELSE LET m == UvMin(SubSeq(uvs, 1, Len(uvs) - 1))
           curUv == uvs[Len(uvs)]
       IN  << RMin(m[1], curUv[1]), RMin(m[2], curUv[2]) >>

RECURSIVE UvMax(_)
\* maxUv after the loop over a non-empty sequence of UVs
UvMax(uvs) ==
  IF Len(uvs) = 1 THEN uvs[1]
  ELSE LET m == UvMax(SubSeq(uvs, 1, Len(uvs) - 1))
           curUv == uvs[Len(uvs)]
       IN  << RMax(m[1], curUv[1]), RMax(m[2], curUv[2]) >>

\* variant without the foundFaces check: minUv = maxUv = (0, 0) when no
\* face is selected
AssignCaseNoCheck(self, fs) ==
  LET uvs == SelectedUvs(fs)
  IN  IF uvs = << >> THEN "A"
      ELSE IF getRowColFromUv(self, UvMin(uvs)) = getRowColFromUv(self, UvMax(uvs))
           THEN "A" ELSE "B"

\* which branch MultiTexAssignMat.execute takes on the faces fs
AssignCase(self, fs) ==
  LET uvs == SelectedUvs(fs)
  IN  IF uvs = << >> THEN "none"
      ELSE IF getRowColFromUv(self, UvMin(uvs)) = getRowColFromUv(self, UvMax(uvs))
           THEN "A" ELSE "B"

\* "uv reassignment": from the cell of the bounding box to the cell of index
ReassignUv(self, fs, index) ==
  LET origRowCol == getRowColFromUv(self, UvMin(SelectedUvs(fs)))
      newRowCol == getMatRowCol(self, index)
      origUvRect == getRowColRectUv(self, origRowCol)
      newUvRect == getRowColRectUv(self, newRowCol)
  IN  [ f \in DOMAIN fs |->
          IF fs[f].select
          THEN [ fs[f] EXCEPT !.loops =
                   [ l \in DOMAIN fs[f].loops |->
                       applyUvRect(unApplyUvRect(fs[f].loops[l], origUvRect),
                                   newUvRect) ] ]
          ELSE fs[f] ]

\* "first time uv assignment": the UVs taken as local coordinates of the
\* cell of index, shrunk by the default margin
FirstAssignUv(self, fs, index) ==
  LET newRowCol == getMatRowCol(self, index)
      uvRect == uvRectApplyMargin(getRowColRectUv(self, newRowCol), MarginDefault)
  IN  [ f \in DOMAIN fs |->
          IF fs[f].select
          THEN [ fs[f] EXCEPT !.loops =
                   [ l \in DOMAIN fs[f].loops |->
                       applyUvRect(fs[f].loops[l], uvRect) ] ]
          ELSE fs[f] ]

\* the faces after MultiTexAssignMat.execute with self.index = index
AssignFaces(self, fs, index) ==
  LET c == AssignCase(self, fs)
  IN  IF c = "none" THEN fs
      ELSE IF c = "A" THEN ReassignUv(self, fs, index)
      ELSE FirstAssignUv(self, fs, index)

\* the faces after MultiTexSelectByMat.execute with self.index = index
SelectFaces(self, fs, index) ==
  [ f \in DOMAIN fs |->
      LET minRowCol == getRowColFromUv(self, UvMin(fs[f].loops))
          maxRowCol == getRowColFromUv(self, UvMax(fs[f].loops))
      IN  [ fs[f] EXCEPT !.select =
              /\ minRowCol = maxRowCol
              /\ getMatIndexFromRowCol(self, minRowCol) = index ] ]


(***************************************************************************)
(* List operators of the panel.                                            *)
(***************************************************************************)
RECURSIVE Decimal(_)
\* str(n) for n >= 0
Decimal(n) == IF n < 10 THEN << 48 + n >> ELSE Append(Decimal(n \div 10), 48 + (n % 10))

\* props after MultiTexAddMat.execute: a default record named "Mat <n>"
AddMat(self) ==
  LET n == Len(self.submats)
  IN  [ self EXCEPT !.submats =
          Append(@, [ DefaultSubMat EXCEPT
                        !.subMatName = << 77, 97, 116, 32 >> \o Decimal(n) ]) ]

RECURSIVE AddMats(_, _)
\* props after MultiTexAddMat has run n times
AddMats(self, n) == IF n = 0 THEN self ELSE AddMat(AddMats(self, n - 1))

(***************************************************************************)
(* SpecAssign: Assign pressed up to MaxOps times on an edit mesh whose     *)
(* selection the user leaves alone.  SpecSelect: Assign and Select pressed *)
(* up to MaxSelectOps times.  The mesh has NumFaces triangles, each        *)
(* starting with one of the layouts of FaceShapes.                         *)
(***************************************************************************)
MaxDim == 2
NumFaces == 2
NumSubMats == 2
MaxOps == 3
MaxSelectOps == 2

\* a triangle spanning [su[1], su[2]] x [sv[1], sv[2]]
Triangle(su, sv) ==
  << << su[1], sv[1] >>, << su[2], sv[1] >>, << su[1], sv[2] >> >>

\* UV layouts a face starts with: a fresh unwrap over the unit square, a
\* layout inside the bottom-left cell, one reaching beyond the unit square
\* and one across u = 0
FaceShapes ==
  { Triangle(<< RInt(0), RInt(1) >>, << RInt(0), RInt(1) >>),
    Triangle(<< Rat(1, 16), Rat(3, 16) >>, << Rat(1, 8), Rat(1, 4) >>),
    Triangle(<< RInt(0), RInt(2) >>, << RInt(0), RInt(1) >>),
    Triangle(<< Rat(-1, 8), Rat(1, 8) >>, << Rat(1, 8), Rat(1, 4) >>) }

InitAssign ==
  /\ props \in { AddMats([ DefaultProps EXCEPT !.numColumns = c, !.numRows = r ],
                         NumSubMats) :
                 c \in GridMin..MaxDim, r \in GridMin..MaxDim }
  /\ faces \in [ 1..NumFaces ->
                 { [ select |-> b, loops |-> t ] :
                   b \in BOOLEAN, t \in FaceShapes } ]
  /\ images = NoImages
  /\ objects = << >>
  /\ matData = << >>
  /\ log = << >>
  /\ call = NoCall
  /\ clipboard = EmptyText

\* the Assign button of record index (edit mode)
MultiTexAssignMat ==
  \E index \in 0..(Len(props.submats) - 1) :
    /\ Len(log) < MaxOps
    /\ faces' = AssignFaces(props, faces, index)
    /\ log' = Append(log, [ op |-> "assign", index |-> index,
                            case |-> AssignCase(props, faces),
                            report |-> IF AssignCase(props, faces) = "none"
                                       THEN "No selected faces found" ELSE "",
                            before |-> faces ])
    /\ UNCHANGED << props, images, objects, matData, call, clipboard >>

\* the Select button of record index (edit mode)
MultiTexSelectByMat ==
  \E index \in 0..(Len(props.submats) - 1) :
    /\ faces' = SelectFaces(props, faces, index)
    /\ log' = Append(log, [ op |-> "select", index |-> index,
                            case |-> "none", report |-> "",
                            before |-> faces ])
    /\ UNCHANGED << props, images, objects, matData, call, clipboard >>

NextAssign == MultiTexAssignMat

SpecAssign == InitAssign /\ [][NextAssign]_vars

NextSelect ==
  \/ Len(log) < MaxSelectOps /\ MultiTexAssignMat
  \/ Len(log) < MaxSelectOps /\ MultiTexSelectByMat

SpecSelect == InitAssign /\ [][NextSelect]_vars


\* the faces an operator of the log left behind
After(i) == IF i < Len(log) THEN log[i + 1].before ELSE faces

\* the selection: the faces whose select flag is set
SelectedSet(fs) == { f \in DOMAIN fs : fs[f].select }

\* every UV of the selection lies in the unit square [0,1] x [0,1]
InUnitSquare(fs) ==
  \A k \in DOMAIN SelectedUvs(fs) :
    LET uv == SelectedUvs(fs)[k]
    IN  /\ RLeq(RInt(0), uv[1]) /\ RLeq(uv[1], RInt(1))
        /\ RLeq(RInt(0), uv[2]) /\ RLeq(uv[2], RInt(1))

\* index addresses a cell of the grid
InGrid(index) == index < props.numColumns * props.numRows

\* log[i] is a first-time assignment directly followed by an assignment of
\* the same selection to the same index
AssignedTwice(i) ==
  /\ i + 1 \in DOMAIN log
  /\ log[i].op = "assign" /\ log[i].case = "B"
  /\ log[i + 1].op = "assign" /\ log[i + 1].index = log[i].index
  /\ InGrid(log[i].index)

\* C2 as stated: a first-time assignment (case B) to an index K of the grid,
\* directly followed by an assignment of the same selection to K, takes the
\* reassignment path (case A) the second time and changes no UV.
C2_AnySelection ==
  \A i \in DOMAIN log :
    AssignedTwice(i) =>
      /\ log[i + 1].case = "A"
      /\ After(i + 1) = log[i + 1].before

\* C2 amended: the same, for a selection whose UVs all lie in the unit
\* square [0,1] x [0,1] before the first assignment.
C2_AssignTwice ==
  \A i \in DOMAIN log :
    AssignedTwice(i) /\ InUnitSquare(log[i].before) =>
      /\ log[i + 1].case = "A"
      /\ After(i + 1) = log[i + 1].before

\* a fresh unwrap was assigned to an index of a 2x2 grid twice in a row: the
\* first assignment moved it, the second took case A
C2_Witness ==
  \E i \in DOMAIN log :
    /\ AssignedTwice(i) /\ InUnitSquare(log[i].before)
    /\ props.numColumns = 2 /\ props.numRows = 2
    /\ log[i + 1].before # log[i].before
    /\ log[i + 1].case = "A"
    /\ Len(log) = i + 1


\* log[i] assigned a non-empty selection to an index and log[i+1] is the
\* Select of the same index
AssignedThenSelected(i) ==
  /\ i + 1 \in DOMAIN log
  /\ log[i].op = "assign" /\ log[i].case # "none"
  /\ log[i + 1].op = "select" /\ log[i + 1].index = log[i].index

\* C3 as stated: after Assign placed a non-empty selection S at index K (by
\* case A or case B), Select of K marks exactly the faces of S.
C3_ExactlySelection ==
  \A i \in DOMAIN log :
    AssignedThenSelected(i) =>
      SelectedSet(After(i + 1)) = SelectedSet(log[i].before)

\* C3 amended: after Assign placed a non-empty selection S whose UVs all lie
\* in the unit square at an index K of the grid, Select of K marks every
\* face of S, and besides S exactly the faces whose own UVs already resolved
\* to cell K before the assignment; every other face is deselected.
C3_SelectAfterAssign ==
  \A i \in DOMAIN log :
    AssignedThenSelected(i) /\ InGrid(log[i].index)
      /\ InUnitSquare(log[i].before) =>
      SelectedSet(After(i + 1)) =
        SelectedSet(log[i].before)
          \cup SelectedSet(SelectFaces(props, log[i].before, log[i].index))

\* a first-time assignment of one face to an index of a 2x2 grid, after
\* which Select of that index marked that face and not the other one
C3_Witness ==
  \E i \in DOMAIN log :
    /\ AssignedThenSelected(i) /\ InGrid(log[i].index)
    /\ InUnitSquare(log[i].before)
    /\ Len(log) = i + 1
    /\ props.numColumns = 2 /\ props.numRows = 2
    /\ log[i].case = "B"
    /\ SelectedSet(log[i].before) = { 1 }
    /\ SelectedSet(faces) = { 1 }

\* log[i] is a first-time assignment and log[j] a later assignment of the
\* same selection, nothing but assignments of that selection in between
AssignedAgain(i, j) ==
  /\ i < j
  /\ log[i].op = "assign" /\ log[i].case = "B"
  /\ \A k \in (i + 1)..j :
       /\ log[k].op = "assign"
       /\ SelectedSet(log[k].before) = SelectedSet(log[i].before)

\* C4 as stated: after a first-time assignment (case B) of a selection to any
\* index, the bounding box of the selection resolves to one cell, and every
\* later assignment of that selection takes case A.
C4_AnySelection ==
  \A i \in DOMAIN log :
    /\ log[i].op = "assign" /\ log[i].case = "B" =>
         AssignCase(props, After(i)) = "A"
    /\ \A j \in DOMAIN log : AssignedAgain(i, j) => log[j].case = "A"

\* C4 amended: the same, for a selection whose UVs all lie in the unit
\* square [0,1] x [0,1] before the first-time assignment and later
\* assignments with no assignment of another selection in between.
C4_CaseBOnce ==
  \A i \in DOMAIN log :
    /\ log[i].op = "assign" /\ log[i].case = "B"
         /\ InUnitSquare(log[i].before) =>
         AssignCase(props, After(i)) = "A"
    /\ \A j \in DOMAIN log :
         AssignedAgain(i, j) /\ InUnitSquare(log[i].before) =>
           log[j].case = "A"

\* a fresh unwrap was assigned by case B and then assigned twice more, to
\* other indices, one of them beyond the cells of the grid
C4_Witness ==
  /\ Len(log) = 3
  /\ AssignedAgain(1, 2) /\ AssignedAgain(1, 3)
  /\ InUnitSquare(log[1].before)
  /\ log[2].index # log[1].index /\ log[3].index # log[2].index
  /\ ~InGrid(log[2].index)
  /\ log[2].case = "A" /\ log[3].case = "A"


(***************************************************************************)
(* Rasterizer.  An image is [size, channels, pixels]; pixels is the flat   *)
(* float buffer image.pixels, pixels[k + 1] being image.pixels[k].         *)
(***************************************************************************)
NumChannels == 4

\* bpy.data.images.new: a black, opaque image
NewImage(sizeX, sizeY) ==
  [ size |-> << sizeX, sizeY >>, channels |-> NumChannels,
    pixels |-> [ k \in 1..(sizeX * sizeY * NumChannels) |->
                   IF (k - 1) % NumChannels = 3 THEN RInt(1) ELSE RInt(0) ] ]

\* tex.scale: the image resized in place.  The resampled content is the
\* host's; it is modelled by repeating the old buffer.
ScaleImage(tex, sizeX, sizeY) ==
  LET old == tex.pixels
      n == Len(old)
  IN  [ tex EXCEPT !.size = << sizeX, sizeY >>,
                   !.pixels = [ k \in 1..(sizeX * sizeY * tex.channels) |->
                                  old[((k - 1) % n) + 1] ] ]

\* adjustOrCreateTexture; tex = << >> stands for "no image"
adjustOrCreateTexture(tex, sizeX, sizeY, numChannels) ==
  LET t == IF tex = << >> \/ tex.channels # numChannels
           THEN NewImage(sizeX, sizeY) ELSE tex
  IN  IF t.size[1] # sizeX \/ t.size[2] # sizeY
      THEN ScaleImage(t, sizeX, sizeY) ELSE t

\* variant that starts every rect at line 0 of the image
fillRgbaRectFromBottom(image, x0, y0, xSize, ySize, r, g, b, a) ==
  LET rgba == << r, g, b, a >>
      ch == image.channels
      old == image.pixels
      lineLen == image.size[1] * ch
      Written(k) ==
        \E y \in 0..(ySize - 1) :
          LET offset == x0 * ch + y * lineLen
          IN  offset <= k - 1 /\ k - 1 < offset + xSize * ch
  IN  [ image EXCEPT !.pixels =
          [ k \in 1..Len(old) |->
              IF Written(k) THEN rgba[((k - 1 - x0 * ch) % ch) + 1]
              ELSE old[k] ] ]

\* fillRgbaRect: line y of the rect starts at offset
\* x0 * channels + (y0 + y) * size[0] * channels and takes xSize pixels
fillRgbaRect(image, x0, y0, xSize, ySize, r, g, b, a) ==
  LET rgba == << r, g, b, a >>
      ch == image.channels
      old == image.pixels
      lineLen == image.size[1] * ch
      Written(k) ==
        \E y \in 0..(ySize - 1) :
          LET offset == x0 * ch + (y0 + y) * lineLen
          IN  offset <= k - 1 /\ k - 1 < offset + xSize * ch
  IN  [ image EXCEPT !.pixels =
          [ k \in 1..Len(old) |->
              IF Written(k) THEN rgba[((k - 1 - x0 * ch) % ch) + 1]
              ELSE old[k] ] ]

\* variant that stores the roughness also when useSmoothness is set
MetRoughNoSmoothness(self, curMat) == curMat.roughness

\* metRough of an occupied cell
MetRough(self, curMat) ==
  IF self.useSmoothness THEN RSub(RInt(1), curMat.roughness)
  ELSE curMat.roughness

\* variant without the clamp
EmStrengthUnclamped(self, curMat) ==
  RDiv(curMat.emission_strength, RInt(self.maxEmissionStrength))

\* emStrength of an occupied cell
EmStrength(self, curMat) ==
  RMax(RInt(0), RMin(RInt(1),
       RDiv(curMat.emission_strength, RInt(self.maxEmissionStrength))))

\* variant that ignores useRgbRoughness
EmptyMetBZero(self) == RInt(0)

\* metB of an unoccupied cell
EmptyMetB(self) == IF self.useRgbRoughness THEN RInt(1) ELSE RInt(0)

\* one pass of the loop "for matIndex in range(0, maxNumMats)"
PaintCell(self, imgs, matIndex) ==
  LET matRect == getMatRect(self, matIndex)
      rectX == matRect[1]
      rectY == matRect[2]
      cellSize == self.cellSize
  IN  IF matIndex < Len(self.submats)
      THEN LET curMat == self.submats[matIndex + 1]
               metRough == MetRough(self, curMat)
               metRg == curMat.metallic
               metB == IF self.useRgbRoughness THEN metRough ELSE metRg
               metA == metRough
           IN  [ albedo |->
                   fillRgbaRect(imgs.albedo, rectX, rectY, cellSize, cellSize,
                                curMat.albedo[1], curMat.albedo[2],
                                curMat.albedo[3], curMat.alpha),
                 metallic |->
                   fillRgbaRect(imgs.metallic, rectX, rectY, cellSize, cellSize,
                                metRg, metRg, metB, metA),
                 emissive |->
                   fillRgbaRect(imgs.emissive, rectX, rectY, cellSize, cellSize,
                                curMat.emissive[1], curMat.emissive[2],
                                curMat.emissive[3], EmStrength(self, curMat)) ]
      ELSE [ albedo |->
               fillRgbaRect(imgs.albedo, rectX, rectY, cellSize, cellSize,
                            RInt(0), RInt(0), RInt(0), RInt(1)),
             metallic |->
               fillRgbaRect(imgs.metallic, rectX, rectY, cellSize, cellSize,
                            RInt(0), RInt(0), EmptyMetB(self), RInt(1)),
             emissive |->
               fillRgbaRect(imgs.emissive, rectX, rectY, cellSize, cellSize,
                            RInt(0), RInt(0), RInt(0), RInt(1)) ]

RECURSIVE PaintCells(_, _, _)
\* the images after the passes for matIndex = 0 .. n-1
PaintCells(self, imgs, n) ==
  IF n = 0 THEN imgs
  ELSE PaintCell(self, PaintCells(self, imgs, n - 1), n - 1)

\* the images of the three texture nodes after buildMultiTexMaterial
buildMultiTexMaterial(self, imgs) ==
  LET cellSize == self.cellSize
      sizeX == self.numColumns * cellSize
      sizeY == self.numRows * cellSize
      sized == [ albedo |->
                   adjustOrCreateTexture(imgs.albedo, sizeX, sizeY, NumChannels),
                 metallic |->
                   adjustOrCreateTexture(imgs.metallic, sizeX, sizeY, NumChannels),
                 emissive |->
                   adjustOrCreateTexture(imgs.emissive, sizeX, sizeY, NumChannels) ]
      maxNumMats == self.numColumns * self.numRows
  IN  PaintCells(self, sized, maxNumMats)


(***************************************************************************)
(* SpecBuild: Build Material pressed up to MaxBuilds times on a material   *)
(* whose grid, packing flags and records the user has set up; the texture  *)
(* nodes hold no images yet or images left by an earlier build.            *)
(***************************************************************************)
MaxCell == 2
MaxRecords == 2
MaxBuilds == 1

\* values of maxEmissionStrength: the least (the default) and the greatest
EmissionMin == 1
EmissionMax == 32

\* the name AddMat gives to record n
SubMatName(n) == << 77, 97, 116, 32 >> \o Decimal(n)

\* records as the user may have edited them: the defaults, one with all
\* channels distinct and an emission strength of 10, one at the ends of the
\* ranges
SubMatChoices ==
  { DefaultSubMat,
    [ DefaultSubMat EXCEPT
        !.albedo = << Rat(1, 8), Rat(2, 8), Rat(3, 8) >>, !.alpha = Rat(1, 2),
        !.metallic = Rat(3, 4), !.roughness = Rat(3, 8),
        !.emissive = << Rat(1, 16), Rat(3, 16), Rat(5, 16) >>,
        !.emission_strength = RInt(10) ],
    [ DefaultSubMat EXCEPT
        !.albedo = << RInt(0), RInt(1), RInt(0) >>, !.alpha = RInt(0),
        !.metallic = RInt(1), !.roughness = RInt(0),
        !.emissive = << RInt(1), RInt(0), RInt(1) >>,
        !.emission_strength = RInt(256) ] }

\* record lists of n records, record k named as AddMat names it
SubMatLists(n) ==
  { [ k \in 1..n |-> [ f[k] EXCEPT !.subMatName = SubMatName(k - 1) ] ] :
    f \in [ 1..n -> SubMatChoices ] }

\* images left by a build of a 1x2 grid of one-pixel cells with one record
StaleImages ==
  buildMultiTexMaterial(
    [ DefaultProps EXCEPT !.numColumns = 1, !.numRows = 2, !.cellSize = 1,
                          !.submats = << DefaultSubMat >> ],
    NoImages)

InitBuild ==
  /\ props \in { [ DefaultProps EXCEPT
                     !.numColumns = c, !.numRows = r, !.cellSize = s,
                     !.maxEmissionStrength = e,
                     !.useRgbRoughness = rgb, !.useSmoothness = sm,
                     !.submats = l ] :
                 c \in GridMin..MaxDim, r \in GridMin..MaxDim,
                 s \in { CellSizeMin, MaxCell },
                 e \in { EmissionMin, EmissionMax },
                 rgb \in BOOLEAN, sm \in BOOLEAN,
                 l \in UNION { SubMatLists(n) : n \in 0..MaxRecords } }
  /\ images \in { NoImages, StaleImages }
  /\ faces = << >>
  /\ objects = << >>
  /\ matData = << >>
  /\ log = << >>
  /\ call = NoCall
  /\ clipboard = EmptyText

\* the Build Material button
MultiTexBuild ==
  /\ Len(log) < MaxBuilds
  /\ images' = buildMultiTexMaterial(props, images)
  /\ log' = Append(log, [ op |-> "build", imagesBefore |-> images ])
  /\ UNCHANGED << props, faces, objects, matData, call, clipboard >>

NextBuild == MultiTexBuild

SpecBuild == InitBuild /\ [][NextBuild]_vars

\* the images are those of a rebuild
Rebuilt == log # << >> /\ log[Len(log)].op = "build"

\* the four channels of pixel (x, y) of an image
PixelAt(image, x, y) ==
  [ c \in 1..4 |-> image.pixels[(y * image.size[1] + x) * 4 + c] ]

\* the cells of the grid, and the pixels of cell index (rows from the bottom)
GridCells == 0..(props.numColumns * props.numRows - 1)
CellPixels(index) ==
  LET col == index % props.numColumns
      row == props.numRows - 1 - (index \div props.numColumns)
  IN  { << x, y >> :
        x \in (col * props.cellSize)..(col * props.cellSize + props.cellSize - 1),
        y \in (row * props.cellSize)..(row * props.cellSize + props.cellSize - 1) }

C6_NeutralFill ==
  Rebuilt =>
    \A index \in GridCells :
      index >= Len(props.submats) =>
        \A p \in CellPixels(index) :
          /\ PixelAt(images.albedo, p[1], p[2])
               = << RInt(0), RInt(0), RInt(0), RInt(1) >>
          /\ PixelAt(images.metallic, p[1], p[2])
               = << RInt(0), RInt(0),
                    IF props.useRgbRoughness THEN RInt(1) ELSE RInt(0),
                    RInt(1) >>
          /\ PixelAt(images.emissive, p[1], p[2])
               = << RInt(0), RInt(0), RInt(0), RInt(1) >>

\* a rebuilt 2x2 atlas with one record: cells 1, 2 and 3 are unoccupied, and
\* the bottom-left pixel (cell 2) holds the fill
C6_Witness ==
  /\ Rebuilt
  /\ props.numColumns = 2 /\ props.numRows = 2
  /\ Len(props.submats) = 1
  /\ props.useRgbRoughness
  /\ props.submats[1].alpha = Rat(1, 2)
  /\ PixelAt(images.metallic, 0, 0) = << RInt(0), RInt(0), RInt(1), RInt(1) >>
  /\ PixelAt(images.albedo, 0, 0) = << RInt(0), RInt(0), RInt(0), RInt(1) >>

\* C7: after a rebuild every pixel of an occupied cell of the emissive image
\* holds the record's emissive colour in RGB and, in alpha,
\* emissionStrength / maxEmissionStrength clamped to [0,1].
C7_EmissionClamp ==
  Rebuilt =>
    \A index \in GridCells :
      index < Len(props.submats) =>
        LET e == props.submats[index + 1].emissive
            q == RDiv(props.submats[index + 1].emission_strength,
                      RInt(props.maxEmissionStrength))
        IN  \A p \in CellPixels(index) :
              LET px == PixelAt(images.emissive, p[1], p[2])
              IN  /\ px[1] = e[1] /\ px[2] = e[2] /\ px[3] = e[3]
                  /\ RLeq(RInt(0), px[4]) /\ RLeq(px[4], RInt(1))
                  /\ px[4] = IF RLess(q, RInt(0)) THEN RInt(0)
                             ELSE IF RLess(RInt(1), q) THEN RInt(1) ELSE q

\* a rebuilt atlas with maxEmissionStrength 1 whose first record has
\* emission strength 10: the alpha stored in its cell is 1
C7_Witness ==
  /\ Rebuilt
  /\ props.maxEmissionStrength = 1
  /\ props.numColumns = 1 /\ props.numRows = 2
  /\ Len(props.submats) >= 1
  /\ props.submats[1].emission_strength = RInt(10)
  /\ PixelAt(images.emissive, 0, props.cellSize)[4] = RInt(1)


(***************************************************************************)
(* Interchange records.  A text is modelled by its JSON document: an       *)
(* object is the sequence of its members << key, value >> in the order     *)
(* they are written, a value is a number, a string, null or an array.      *)
(* EmptyText is the empty string and Garbage a text that is not JSON.      *)
(***************************************************************************)
Garbage == [ kind |-> "garbage" ]
JNumber(v) == [ kind |-> "number", value |-> v ]
JString(s) == [ kind |-> "string", value |-> s ]
JNull == [ kind |-> "null" ]
JArray == [ kind |-> "array" ]
JObject(members) == [ kind |-> "object", members |-> members ]

\* json.dumps of a dictionary whose items are given in insertion order
jsonDumps(items) == JObject(items)

\* json.loads: ValueError for a text that is not JSON; an object becomes a
\* dictionary in which the last member of a key wins
jsonLoads(js) ==
  IF js.kind \in { "empty", "garbage" }
  THEN [ raised |-> "ValueError" ]
  ELSE IF js.kind # "object"
  THEN [ raised |-> "none", isDict |-> FALSE ]
  ELSE [ raised |-> "none", isDict |-> TRUE,
         data |-> [ key \in { js.members[i][1] : i \in DOMAIN js.members } |->
                      LET last == CHOOSE i \in DOMAIN js.members :
                                    /\ js.members[i][1] = key
                                    /\ \A j \in DOMAIN js.members :
                                         js.members[j][1] = key => j <= i
                      IN  js.members[last][2] ] ]

\* data.get(key, default)
DictGet(data, key, default) == IF key \in DOMAIN data THEN data[key] ELSE default

\* a FloatProperty stores the value clamped to its [min, max]
SetFloatProp(v, lo, hi) ==
  IF RLess(v, lo) THEN lo ELSE IF RLess(hi, v) THEN hi ELSE v

EmissionStrengthMax == 256

\* MatKeys, in the order jsonToSubMat assigns them
MatKeys ==
  << "name", "albedoR", "albedoG", "albedoB", "alpha", "emissiveR",
     "emissiveG", "emissiveB", "emissiveStrength", "metallic", "roughness" >>

\* bsdfToJson: the socket defaults of the Principled BSDF node of mat
bsdfToJson(mat) ==
  jsonDumps(<< << "name", JString(mat.name) >>,
               << "albedoR", JNumber(mat.bsdf.albedo[1]) >>,
               << "albedoG", JNumber(mat.bsdf.albedo[2]) >>,
               << "albedoB", JNumber(mat.bsdf.albedo[3]) >>,
               << "alpha", JNumber(mat.bsdf.alpha) >>,
               << "emissiveR", JNumber(mat.bsdf.emissive[1]) >>,
               << "emissiveG", JNumber(mat.bsdf.emissive[2]) >>,
               << "emissiveB", JNumber(mat.bsdf.emissive[3]) >>,
               << "emissiveStrength", JNumber(mat.bsdf.emissionStrength) >>,
               << "metallic", JNumber(mat.bsdf.metallic) >>,
               << "roughness", JNumber(mat.bsdf.roughness) >> >>)

\* subMatToJson: the name written is sm.name
subMatToJson(sm) ==
  jsonDumps(<< << "name", JString(sm.name) >>,
               << "albedoR", JNumber(sm.albedo[1]) >>,
               << "albedoG", JNumber(sm.albedo[2]) >>,
               << "albedoB", JNumber(sm.albedo[3]) >>,
               << "alpha", JNumber(sm.alpha) >>,
               << "emissiveR", JNumber(sm.emissive[1]) >>,
               << "emissiveG", JNumber(sm.emissive[2]) >>,
               << "emissiveB", JNumber(sm.emissive[3]) >>,
               << "emissiveStrength", JNumber(sm.emission_strength) >>,
               << "metallic", JNumber(sm.metallic) >>,
               << "roughness", JNumber(sm.roughness) >> >>)

\* the default of the data.get of the assignment of key: the record's
\* current value, for the name the value of sm.name
GetDefault(sm, key) ==
  CASE key = "name" -> JString(sm.name)
    [] key = "albedoR" -> JNumber(sm.albedo[1])
    [] key = "albedoG" -> JNumber(sm.albedo[2])
    [] key = "albedoB" -> JNumber(sm.albedo[3])
    [] key = "alpha" -> JNumber(sm.alpha)
    [] key = "emissiveR" -> JNumber(sm.emissive[1])
    [] key = "emissiveG" -> JNumber(sm.emissive[2])
    [] key = "emissiveB" -> JNumber(sm.emissive[3])
    [] key = "emissiveStrength" -> JNumber(sm.emission_strength)
    [] key = "metallic" -> JNumber(sm.metallic)
    [] key = "roughness" -> JNumber(sm.roughness)

\* a StringProperty takes a string, a float property a number
Accepts(key, val) ==
  IF key = "name" THEN val.kind = "string" ELSE val.kind = "number"

\* the record after the assignment of key
SetField(sm, key, v) ==
  LET Unit(x) == SetFloatProp(x, RInt(0), RInt(1))
  IN  CASE key = "name" -> [ sm EXCEPT !.subMatName = v ]
        [] key = "albedoR" -> [ sm EXCEPT !.albedo[1] = Unit(v) ]
        [] key = "albedoG" -> [ sm EXCEPT !.albedo[2] = Unit(v) ]
        [] key = "albedoB" -> [ sm EXCEPT !.albedo[3] = Unit(v) ]
        [] key = "alpha" -> [ sm EXCEPT !.alpha = Unit(v) ]
        [] key = "emissiveR" -> [ sm EXCEPT !.emissive[1] = Unit(v) ]
        [] key = "emissiveG" -> [ sm EXCEPT !.emissive[2] = Unit(v) ]
        [] key = "emissiveB" -> [ sm EXCEPT !.emissive[3] = Unit(v) ]
        [] key = "emissiveStrength" ->
             [ sm EXCEPT !.emission_strength =
                 SetFloatProp(v, RInt(0), RInt(EmissionStrengthMax)) ]
        [] key = "metallic" -> [ sm EXCEPT !.metallic = Unit(v) ]
        [] key = "roughness" -> [ sm EXCEPT !.roughness = Unit(v) ]

RECURSIVE AssignFrom(_, _, _)
\* the assignments of jsonToSubMat from the k-th on; the first value a
\* property does not take raises TypeError and ends them
AssignFrom(sm, data, k) ==
  IF k > Len(MatKeys) THEN [ sm |-> sm, raised |-> "none" ]
  ELSE LET key == MatKeys[k]
           val == DictGet(data, key, GetDefault(sm, key))
       IN  IF Accepts(key, val)
           THEN AssignFrom(SetField(sm, key, val.value), data, k + 1)
           ELSE [ sm |-> sm, raised |-> "TypeError" ]

\* jsonToSubMat: the record afterwards and the exception raised, if any
jsonToSubMat(sm, js) ==
  LET loaded == jsonLoads(js)
  IN  IF loaded.raised # "none" THEN [ sm |-> sm, raised |-> loaded.raised ]
      ELSE IF ~loaded.isDict THEN [ sm |-> sm, raised |-> "AttributeError" ]
      ELSE AssignFrom(sm, loaded.data, 1)

(***************************************************************************)
(* MultiTexCombineMeshes.  A material is [name, bsdf, multiTex, images],   *)
(* bsdf = << >> when its node tree has no Principled BSDF node; materials  *)
(* are identified by their position in matData.  An object is [type,       *)
(* select, materials, faces]: materials are the slots of its mesh, a face  *)
(* is [material_index, loops].  Modelled are scenes whose meshes have no   *)
(* empty slot and whose faces address an existing slot.                    *)
(***************************************************************************)
\* s < t for strings
RECURSIVE StrLess(_, _)
StrLess(a, b) ==
  IF b = << >> THEN FALSE
  ELSE IF a = << >> THEN TRUE
  ELSE IF Head(a) # Head(b) THEN Head(a) < Head(b)
  ELSE StrLess(Tail(a), Tail(b))

\* matHasMultiTex
matHasMultiTex(mat) == Len(mat.multiTex.submats) > 0

\* objHasMultiTex
objHasMultiTex(mats, obj) ==
  /\ obj.type = "MESH"
  /\ \E k \in DOMAIN obj.materials : matHasMultiTex(mats[obj.materials[k]])

\* objs: the selected objects, or every object when none is selected; of
\* these, meshObjs are the positions of the meshes
MeshObjs(objs) ==
  LET anySelected == \E k \in DOMAIN objs : objs[k].select
  IN  SelectSeq([ k \in DOMAIN objs |-> k ],
                LAMBDA k : /\ objs[k].type = "MESH"
                           /\ (anySelected => objs[k].select))

RECURSIVE AppendNew(_, _, _)
\* mats after "for mat in mesh.materials: if ... : mats.append(mat)"
AppendNew(all, mats, slots) ==
  IF slots = << >> THEN mats
  ELSE LET mat == Head(slots)
           seen == \E k \in DOMAIN mats : mats[k] = mat
       IN  AppendNew(all,
                     IF ~seen /\ ~matHasMultiTex(all[mat])
                     THEN Append(mats, mat) ELSE mats,
                     Tail(slots))

RECURSIVE CollectMats(_, _, _)
\* mats after the loop over the first n mesh objects
CollectMats(all, objs, n) ==
  IF n = 0 THEN << >>
  ELSE AppendNew(all, CollectMats(all, objs, n - 1),
                 objs[MeshObjs(objs)[n]].materials)

RECURSIVE InsertByName(_, _, _)
\* mat inserted behind the entries whose name is not greater (stable sort)
InsertByName(all, sorted, mat) ==
  IF sorted = << >> THEN << mat >>
  ELSE IF StrLess(all[mat].name, all[Head(sorted)].name)
       THEN << mat >> \o sorted
       ELSE << Head(sorted) >> \o InsertByName(all, Tail(sorted), mat)

RECURSIVE SortFirst(_, _, _)
\* the first n entries of mats in the order of their names
SortFirst(all, mats, n) ==
  IF n = 0 THEN << >>
  ELSE InsertByName(all, SortFirst(all, mats, n - 1), mats[n])

\* variant without the sort
KeepOrder(all, mats) == mats

\* mats.sort(key=lambda x: x.name)
SortByName(all, mats) == SortFirst(all, mats, Len(mats))

RECURSIVE Pow2From(_, _)
\* "while result*result < num: result *= 2"
Pow2From(result, num) ==
  IF result * result < num THEN Pow2From(result * 2, num) ELSE result

\* variant whose loop runs while result*result <= num
RECURSIVE Pow2FromLeq(_, _)
Pow2FromLeq(result, num) ==
  IF result * result <= num THEN Pow2FromLeq(result * 2, num) ELSE result
findPow2Leq(num) == Pow2FromLeq(1, num)

findPow2(num) == Pow2From(1, num)

\* the grid properties set on the combined material for numMats materials
CombineGrid(multiTex, numMats) ==
  LET pow2 == findPow2(numMats)
  IN  [ multiTex EXCEPT
          !.numRows = SetIntProp(pow2, GridMin, GridMax),
          !.numColumns = SetIntProp(pow2, GridMin, GridMax),
          !.cellSize = SetIntProp(1, CellSizeMin, CellSizeMax) ]

RECURSIVE CombineSubMats(_, _, _)
\* submats after "for curMat in mats" over the first n materials
CombineSubMats(all, mats, n) ==
  IF n = 0 THEN << >>
  ELSE LET curMat == all[mats[n]]
           subMat == DefaultSubMat
       IN  Append(CombineSubMats(all, mats, n - 1),
                  IF curMat.bsdf # << >>
                  THEN jsonToSubMat(subMat, bsdfToJson(curMat)).sm
                  ELSE subMat)

\* mats.index(x)
IndexOf(mats, x) == CHOOSE k \in DOMAIN mats : mats[k] = x

\* the copy of curObj with its faces moved into the cells of their materials
CombinedCopy(multiTex, mats, curObj, combinedMat) ==
  LET matRects == [ x \in DOMAIN mats |-> getMatRectUv(multiTex, x - 1) ]
      meshMatIdx == [ k \in DOMAIN curObj.materials |->
                        IndexOf(mats, curObj.materials[k]) ]
  IN  [ curObj EXCEPT
          !.materials = << combinedMat >>,
          !.faces = [ f \in DOMAIN curObj.faces |->
                        LET uvRect ==
                              matRects[meshMatIdx[curObj.faces[f].material_index + 1]]
                        IN  [ material_index |-> 0,
                              loops |-> [ l \in DOMAIN curObj.faces[f].loops |->
                                            applyUvRect(curObj.faces[f].loops[l],
                                                        uvRect) ] ] ] ]

CombinedName == << 67, 111, 109, 98, 105, 110, 101, 100, 32, 77, 97, 116, 101, 114, 105, 97, 108 >>

\* the name bpy.data.materials.new gives: the requested one, or the
\* requested one with a numeric suffix when it is taken
NewMaterialName(all, name) ==
  LET taken == { k \in DOMAIN all :
                   /\ Len(all[k].name) >= Len(name)
                   /\ SubSeq(all[k].name, 1, Len(name)) = name }
  IN  IF taken = {} THEN name
      ELSE name \o << 46, 48, 48 >> \o Decimal(Cardinality(taken))

\* the Principled BSDF node a new node tree holds
NewBsdf ==
  [ albedo |-> << Rat(4, 5), Rat(4, 5), Rat(4, 5) >>, alpha |-> RInt(1),
    emissive |-> << RInt(0), RInt(0), RInt(0) >>, emissionStrength |-> RInt(1),
    metallic |-> RInt(0), roughness |-> Rat(1, 2) ]

\* the state after execute, as [result, report, matData, objects]
CombineMeshes(all, objs) ==
  LET meshObjs == MeshObjs(objs)
      collected == CollectMats(all, objs, Len(meshObjs))
      mats == SortByName(all, collected)
      multiTex == [ CombineGrid(DefaultProps, Len(mats)) EXCEPT
                      !.submats = CombineSubMats(all, mats, Len(mats)) ]
      combinedMat == Len(all) + 1
      combinedName == NewMaterialName(all, CombinedName)
      copied == SelectSeq(meshObjs, LAMBDA k : ~objHasMultiTex(all, objs[k]))
      newObjs == [ n \in DOMAIN copied |->
                     [ CombinedCopy(multiTex, mats, objs[copied[n]], combinedMat)
                         EXCEPT !.select = TRUE ] ]
      built == [ multiTex EXCEPT !.useShortTexNames = TRUE, !.useTga = TRUE,
                                 !.compactUi = TRUE ]
  IN  IF collected = << >>
      THEN [ result |-> "CANCELLED", report |-> "No materials to combine",
             mats |-> << >>, matData |-> all, objects |-> objs ]
      ELSE IF newObjs = << >>
      THEN [ result |-> "CANCELLED", report |-> "No objects were created",
             mats |-> mats,
             matData |-> Append(all, [ name |-> combinedName, bsdf |-> << >>,
                                       multiTex |-> multiTex,
                                       images |-> NoImages ]),
             objects |-> objs ]
      ELSE [ result |-> "FINISHED", report |-> "",
             mats |-> mats,
             matData |-> Append(all, [ name |-> combinedName, bsdf |-> NewBsdf,
                                       multiTex |-> built,
                                       images |->
                                         buildMultiTexMaterial(built, NoImages) ]),
             objects |-> [ k \in DOMAIN objs |-> [ objs[k] EXCEPT !.select = FALSE ] ]
                         \o newObjs ]

(***************************************************************************)
(* SpecMerge: one merge of every scene of NumObjs objects, each an empty   *)
(* or a mesh with one or two material slots, over NumPlainMats plain       *)
(* materials and one atlas-enabled material.  The names of the plain       *)
(* materials are not in the order of their creation.                       *)
(***************************************************************************)
NumObjs == 2
NumPlainMats == 3
NumMeshFaces == 2
MaxMerges == 1

\* "Z", "AB", "A", "AD", "AE", ...
MatName(i) ==
  IF i = 1 THEN << 90 >>
  ELSE IF i = 2 THEN << 65, 66 >>
  ELSE IF i = 3 THEN << 65 >>
  ELSE << 65, 64 + i >>

\* socket values of the i-th plain material; some lie outside the ranges
\* of the record's properties
PlainBsdf(i) ==
  [ albedo |-> << Rat(i, 3), Rat(1, 2), Rat(1, 4) >>, alpha |-> Rat(1, i),
    emissive |-> << RInt(0), Rat(1, 8), Rat(i, 8) >>,
    emissionStrength |-> IF i = 2 THEN RInt(300) ELSE RInt(i),
    metallic |-> Rat(1, i + 1), roughness |-> Rat(i, 8) ]

AtlasName == << 65, 116, 108, 97, 115 >>

\* the materials of the scene: the plain ones, the first of them without a
\* Principled BSDF node, and the atlas-enabled one
SceneMats ==
  [ i \in 1..(NumPlainMats + 1) |->
      IF i <= NumPlainMats
      THEN [ name |-> MatName(i),
             bsdf |-> IF i = 1 THEN << >> ELSE PlainBsdf(i),
             multiTex |-> DefaultProps, images |-> NoImages ]
      ELSE [ name |-> AtlasName, bsdf |-> NewBsdf,
             multiTex |-> [ DefaultProps EXCEPT !.submats = << DefaultSubMat >> ],
             images |-> NoImages ] ]

SlotLists ==
  LET M == 1..(NumPlainMats + 1)
  IN  { << m >> : m \in M } \cup
      { l \in M \X M : l[1] # l[2] }

\* the faces of a mesh: triangles, their slots taken in turn
MeshFaces(slots) ==
  [ f \in 1..NumMeshFaces |->
      [ material_index |-> (f - 1) % Len(slots),
        loops |-> << << RInt(0), RInt(0) >>, << Rat(1, f), RInt(0) >>,
                     << Rat(1, f), RInt(1) >> >> ] ]

SceneObjects ==
  { [ type |-> "EMPTY", select |-> s, materials |-> << >>, faces |-> << >> ] :
      s \in BOOLEAN } \cup
  { [ type |-> "MESH", select |-> s, materials |-> l, faces |-> MeshFaces(l) ] :
      s \in BOOLEAN, l \in SlotLists }

InitMerge ==
  /\ matData = SceneMats
  /\ objects \in [ 1..NumObjs -> SceneObjects ]
  /\ props = DefaultProps
  /\ faces = << >>
  /\ images = NoImages
  /\ log = << >>
  /\ call = NoCall
  /\ clipboard = EmptyText

MultiTexCombineMeshes ==
  /\ Len(log) < MaxMerges
  /\ \E done \in { CombineMeshes(matData, objects) } :
       /\ matData' = done.matData
       /\ objects' = done.objects
       /\ log' = Append(log, [ op |-> "combine", result |-> done.result,
                               report |-> done.report, mats |-> done.mats,
                               matData |-> matData, objects |-> objects ])
  /\ UNCHANGED << props, faces, images, call, clipboard >>

NextMerge == MultiTexCombineMeshes

SpecMerge == InitMerge /\ [][NextMerge]_vars

(***************************************************************************)
(* SpecCombineGrid: the grid properties of a combined material for every   *)
(* number of materials up to MaxMatCount.                                  *)
(***************************************************************************)
MaxMatCount == 260

InitCombineGrid ==
  /\ props = DefaultProps
  /\ faces = << >>
  /\ images = NoImages
  /\ objects = << >>
  /\ matData = << >>
  /\ log = << >>
  /\ call = NoCall
  /\ clipboard = EmptyText

CallCombineGrid ==
  /\ call = NoCall
  /\ \E numMats \in 1..MaxMatCount :
       /\ props' = CombineGrid(props, numMats)
       /\ call' = [ op |-> "CombineGrid", numMats |-> numMats ]
  /\ UNCHANGED << faces, images, objects, matData, log, clipboard >>

NextCombineGrid == CallCombineGrid

SpecCombineGrid == InitCombineGrid /\ [][NextCombineGrid]_vars

\* the powers of two below 2^GridMax
Pow2s == { 2^k : k \in 0..(GridMax - 1) }

\* the smallest power of two whose square is at least count
SmallestPow2(count) ==
  CHOOSE p \in Pow2s :
    /\ p * p >= count
    /\ \A q \in Pow2s : q * q >= count => p <= q

\* C8 as stated: for every count >= 1 of distinct materials the combined
\* material gets numColumns = numRows = P and cellSize = 1, P the smallest
\* power of two with P*P >= count.
C8_AnyCount ==
  call.op = "CombineGrid" =>
    /\ props.numColumns = SmallestPow2(call.numMats)
    /\ props.numRows = SmallestPow2(call.numMats)
    /\ props.cellSize = 1

\* What the merge does produce: P x P with cellSize 1 for a count of 1 to
\* GridMax*GridMax materials; for a larger count both dimensions stay at
\* GridMax, a grid with fewer cells than materials.
C8_GridForCount ==
  call.op = "CombineGrid" =>
    /\ props.cellSize = 1
    /\ props.numColumns = props.numRows
    /\ props.numColumns = IF call.numMats <= GridMax * GridMax
                          THEN SmallestPow2(call.numMats)
                          ELSE GridMax

\* five materials were given a 4 x 4 grid
C8_Witness ==
  /\ call.op = "CombineGrid"
  /\ call.numMats = 5
  /\ props.numColumns = 4
  /\ props.numRows = 4

\* the last operator run was a merge
Merged == log # << >> /\ log[Len(log)].op = "combine"
Merge == log[Len(log)]

\* the meshes a merge looks at
Considered(objs) ==
  { k \in DOMAIN objs :
      /\ objs[k].type = "MESH"
      /\ ((\E j \in DOMAIN objs : objs[j].select) => objs[k].select) }

\* the distinct materials of these meshes that are not atlas-enabled
Candidates(all, objs) ==
  { m \in DOMAIN all :
      /\ all[m].multiTex.submats = << >>
      /\ \E k \in Considered(objs) :
           \E j \in DOMAIN objs[k].materials : objs[k].materials[j] = m }

\* position of material m among the candidates in the order of their names
Rank(all, objs, m) ==
  Cardinality({ c \in Candidates(all, objs) : StrLess(all[c].name, all[m].name) }) + 1

\* the considered meshes that hold no atlas-enabled material, in scene order
Sources(all, objs) ==
  SelectSeq([ k \in DOMAIN objs |-> k ],
            LAMBDA k : /\ k \in Considered(objs)
                       /\ \A j \in DOMAIN objs[k].materials :
                            all[objs[k].materials[j]].multiTex.submats = << >>)

\* uv inside the cell of a P x P grid with the given rank, rows from the bottom
CellUv(rank, P, uv) ==
  LET col == (rank - 1) % P
      row == P - 1 - ((rank - 1) \div P)
  IN  << RDiv(RAdd(RInt(col), uv[1]), RInt(P)),
         RDiv(RAdd(RInt(row), uv[2]), RInt(P)) >>

Clamp(v, hi) == RMax(RInt(0), RMin(RInt(hi), v))

\* the record the merge makes of material mat
RecordOf(mat) ==
  IF mat.bsdf = << >> THEN DefaultSubMat
  ELSE [ subMatName |-> mat.name, name |-> << >>,
         albedo |-> [ c \in 1..3 |-> Clamp(mat.bsdf.albedo[c], 1) ],
         alpha |-> Clamp(mat.bsdf.alpha, 1),
         metallic |-> Clamp(mat.bsdf.metallic, 1),
         roughness |-> Clamp(mat.bsdf.roughness, 1),
         emissive |-> [ c \in 1..3 |-> Clamp(mat.bsdf.emissive[c], 1) ],
         emission_strength |-> Clamp(mat.bsdf.emissionStrength,
                                     EmissionStrengthMax) ]

\* C9: a merge that finishes gives the distinct materials that are not
\* atlas-enabled one record each, in the order of their names: record i is
\* made from the i-th material, also when that material has no BSDF node,
\* and every face of a copied surface is moved by applyUvRect into the cell
\* of its material's position in that order, with material_index 0.
C9_MergeOrder ==
  (Merged /\ Merge.result = "FINISHED") =>
    LET all == Merge.matData
        objs == Merge.objects
        cands == Candidates(all, objs)
        srcs == Sources(all, objs)
        combinedMat == Len(matData)
        multiTex == matData[combinedMat].multiTex
    IN  /\ Len(matData) = Len(all) + 1
        /\ Len(multiTex.submats) = Cardinality(cands)
        /\ \A m \in cands :
             multiTex.submats[Rank(all, objs, m)] = RecordOf(all[m])
        /\ Len(objects) = Len(objs) + Len(srcs)
        /\ \A n \in DOMAIN srcs :
             LET old == objs[srcs[n]]
                 new == objects[Len(objs) + n]
             IN  /\ new.materials = << combinedMat >>
                 /\ DOMAIN new.faces = DOMAIN old.faces
                 /\ \A f \in DOMAIN old.faces :
                      /\ new.faces[f].material_index = 0
                      /\ DOMAIN new.faces[f].loops = DOMAIN old.faces[f].loops
                      /\ \A l \in DOMAIN old.faces[f].loops :
                           new.faces[f].loops[l] =
                             CellUv(Rank(all, objs,
                                         old.materials[old.faces[f].material_index + 1]),
                                    multiTex.numColumns,
                                    old.faces[f].loops[l])

\* a finished merge of two meshes whose slots hold the three plain materials
\* in the reverse of their name order, the first of them without a BSDF node
C9_Witness ==
  /\ Merged
  /\ Merge.result = "FINISHED"
  /\ Merge.matData[1].bsdf = << >>
  /\ Merge.objects[1].type = "MESH"
  /\ Merge.objects[1].materials = << 1, 2 >>
  /\ Merge.objects[2].materials = << 3 >>
  /\ Merge.mats = << 3, 2, 1 >>
  /\ matData[Len(matData)].multiTex.numColumns = 2
  /\ Len(objects) > Len(Merge.objects)

\* C10: a merge that ends with NothingToCombine or NoSurfacesProduced leaves
\* no partial atlas: no new combined material, records, surfaces or images.
C10_NoPartialAtlas ==
  (Merged /\ Merge.result = "CANCELLED") =>
    /\ matData = Merge.matData
    /\ objects = Merge.objects

\* the NothingToCombine half of C10 on its own
NothingToCombineClean ==
  (Merged /\ Merge.report = "No materials to combine") =>
    /\ matData = Merge.matData
    /\ objects = Merge.objects

\* a merge ended with NoSurfacesProduced and left a combined material with
\* records behind
NoSurfacesLeftMaterial ==
  /\ Merged
  /\ Merge.report = "No objects were created"
  /\ Len(matData) = Len(Merge.matData) + 1
  /\ matData[Len(matData)].multiTex.submats # << >>

(***************************************************************************)
(* SpecClipboard: Copy and Paste pressed up to MaxClipOps times on a       *)
(* material with NumClipRecords records; the clipboard starts with a text  *)
(* from elsewhere: a full record, a record with members missing or of the  *)
(* wrong type, a JSON text that is no object, or no JSON at all.           *)
(***************************************************************************)
NumClipRecords == 2
MaxClipOps == 2

\* a full record as "Copy from material" writes it
FullText == bsdfToJson([ name |-> MatName(1), bsdf |-> PlainBsdf(2) ])

\* the text without its k-th member
WithoutMember(js, k) ==
  JObject(SubSeq(js.members, 1, k - 1) \o SubSeq(js.members, k + 1, Len(js.members)))

\* the text with the k-th member only
OnlyMember(js, k) == JObject(<< js.members[k] >>)

\* the text with the value of the k-th member replaced by val
WithValue(js, k, val) ==
  JObject([ js.members EXCEPT ![k] = << js.members[k][1], val >> ])

ClipboardTexts ==
  { Garbage, JArray, JNull, JNumber(RInt(1)), JString(MatName(1)),
    JObject(<< >>), FullText } \cup
  { WithoutMember(FullText, k) : k \in DOMAIN MatKeys } \cup
  { OnlyMember(FullText, k) : k \in DOMAIN MatKeys } \cup
  { WithValue(FullText, k, IF k = 1 THEN JNumber(RInt(1)) ELSE JString(MatName(1))) :
      k \in DOMAIN MatKeys } \cup
  { WithValue(FullText, k, JNull) : k \in DOMAIN MatKeys }

InitClipboard ==
  /\ props \in { [ DefaultProps EXCEPT !.submats = l ] :
                 l \in SubMatLists(NumClipRecords) }
  /\ clipboard \in ClipboardTexts
  /\ faces = << >>
  /\ images = NoImages
  /\ objects = << >>
  /\ matData = << >>
  /\ log = << >>
  /\ call = NoCall

\* MultiTexCopySubMat.execute; an index past the list copies nothing
MultiTexCopySubMat ==
  /\ Len(log) < MaxClipOps
  /\ \E index \in 0..Len(props.submats) :
       /\ clipboard' = IF index < Len(props.submats)
                       THEN subMatToJson(props.submats[index + 1])
                       ELSE clipboard
       /\ log' = Append(log, [ op |-> "copy", index |-> index,
                               raised |-> "none", report |-> "",
                               before |-> props.submats, text |-> clipboard ])
  /\ UNCHANGED << props, faces, images, objects, matData, call >>

\* MultiTexPasteSubMat: poll wants a clipboard that is not empty; execute
\* catches ValueError and reports it, any other exception leaves it
MultiTexPasteSubMat ==
  /\ Len(log) < MaxClipOps
  /\ clipboard # EmptyText
  /\ \E index \in 0..Len(props.submats) :
       \E done \in { IF index < Len(props.submats)
                     THEN jsonToSubMat(props.submats[index + 1], clipboard)
                     ELSE [ raised |-> "none" ] } :
         /\ props' = IF index < Len(props.submats)
                     THEN [ props EXCEPT !.submats[index + 1] = done.sm ]
                     ELSE props
         /\ log' = Append(log, [ op |-> "paste", index |-> index,
                                 raised |-> done.raised,
                                 report |-> IF done.raised = "ValueError"
                                            THEN "Could not decode json" ELSE "",
                                 before |-> props.submats, text |-> clipboard ])
  /\ UNCHANGED << faces, images, objects, matData, call, clipboard >>

NextClipboard == MultiTexCopySubMat \/ MultiTexPasteSubMat

SpecClipboard == InitClipboard /\ [][NextClipboard]_vars

\* the last operator run was a paste into an existing record
Pasted ==
  /\ log # << >>
  /\ log[Len(log)].op = "paste"
  /\ log[Len(log)].index < Len(props.submats)
Paste == log[Len(log)]
PasteTarget == props.submats[Paste.index + 1]
PasteTargetBefore == Paste.before[Paste.index + 1]

\* the field of a record that a key of the text record stands for
FieldOf(sm, key) ==
  CASE key = "name" -> sm.subMatName
    [] key = "albedoR" -> sm.albedo[1]
    [] key = "albedoG" -> sm.albedo[2]
    [] key = "albedoB" -> sm.albedo[3]
    [] key = "alpha" -> sm.alpha
    [] key = "emissiveR" -> sm.emissive[1]
    [] key = "emissiveG" -> sm.emissive[2]
    [] key = "emissiveB" -> sm.emissive[3]
    [] key = "emissiveStrength" -> sm.emission_strength
    [] key = "metallic" -> sm.metallic
    [] key = "roughness" -> sm.roughness

AllKeys == { MatKeys[k] : k \in DOMAIN MatKeys }
KeysOf(js) == { js.members[i][1] : i \in DOMAIN js.members }

\* every member of the text has a value of the type of its field
WellTyped(js) ==
  \A i \in DOMAIN js.members :
    js.members[i][2].kind = IF js.members[i][1] = "name" THEN "string" ELSE "number"

\* C11: pasting a text record with keys missing does not fail, and each of
\* the 11 fields whose key is missing keeps the value it had before.
C11_MissingKeepsValue ==
  (Pasted /\ Paste.text.kind = "object" /\ WellTyped(Paste.text)) =>
    /\ Paste.raised = "none"
    /\ \A key \in AllKeys \ KeysOf(Paste.text) :
         FieldOf(PasteTarget, key) = FieldOf(PasteTargetBefore, key)

\* the same for the ten numeric fields only
MissingNumberKeepsValue ==
  (Pasted /\ Paste.text.kind = "object" /\ WellTyped(Paste.text)) =>
    /\ Paste.raised = "none"
    /\ \A key \in (AllKeys \ { "name" }) \ KeysOf(Paste.text) :
         FieldOf(PasteTarget, key) = FieldOf(PasteTargetBefore, key)

\* C12: pasting a malformed text (no JSON, no key-value record, or a value
\* of the wrong type) is reported and leaves every field of the target
\* record as it was.
C12_MalformedLeavesRecord ==
  (Pasted /\ ~(Paste.text.kind = "object" /\ WellTyped(Paste.text))) =>
    /\ Paste.raised # "none"
    /\ PasteTarget = PasteTargetBefore

\* the same for the texts that are no JSON object at all
NoObjectLeavesRecord ==
  (Pasted /\ Paste.text.kind # "object") =>
    /\ Paste.raised # "none"
    /\ PasteTarget = PasteTargetBefore

\* C13: Copy on record A followed by Paste into record B makes all 11
\* fields of B equal to those of A and leaves A unchanged.
C13_CopyPasteRoundTrip ==
  \A i \in 1..(Len(log) - 1) :
    LET a == log[i].index + 1
        b == log[i + 1].index + 1
    IN  ( /\ i + 1 = Len(log)
          /\ log[i].op = "copy" /\ log[i + 1].op = "paste"
          /\ a \in DOMAIN props.submats /\ b \in DOMAIN props.submats
          /\ a # b ) =>
          /\ log[i + 1].raised = "none"
          /\ \A key \in AllKeys :
               FieldOf(props.submats[b], key) = FieldOf(log[i].before[a], key)
          /\ props.submats[a] = log[i].before[a]

\* the same for the ten numeric fields only
NumbersRoundTrip ==
  \A i \in 1..(Len(log) - 1) :
    LET a == log[i].index + 1
        b == log[i + 1].index + 1
    IN  ( /\ i + 1 = Len(log)
          /\ log[i].op = "copy" /\ log[i + 1].op = "paste"
          /\ a \in DOMAIN props.submats /\ b \in DOMAIN props.submats
          /\ a # b ) =>
          /\ log[i + 1].raised = "none"
          /\ \A key \in AllKeys \ { "name" } :
               FieldOf(props.submats[b], key) = FieldOf(log[i].before[a], key)
          /\ props.submats[a] = log[i].before[a]

(***************************************************************************)
(* SpecList: Assign (edit mode) and Remove, Move Up, Move Down (object     *)
(* mode) pressed up to MaxListOps times on a material with NumSubMats      *)
(* records and a mesh of freshly unwrapped triangles.                      *)
(***************************************************************************)
MaxListOps == 3

\* submats.remove(index)
RemoveAt(submats, index) ==
  SubSeq(submats, 1, index) \o SubSeq(submats, index + 2, Len(submats))

\* submats.move(from, to)
MoveItem(submats, from, to) ==
  [ k \in DOMAIN submats |->
      IF k = to + 1 THEN submats[from + 1]
      ELSE IF from < to /\ from + 1 <= k /\ k <= to THEN submats[k + 1]
      ELSE IF to < from /\ to + 1 < k /\ k <= from + 1 THEN submats[k - 1]
      ELSE submats[k] ]

InitList ==
  /\ props \in { AddMats([ DefaultProps EXCEPT !.numColumns = c, !.numRows = r ],
                         NumSubMats) :
                 c \in GridMin..MaxDim, r \in GridMin..MaxDim }
  /\ faces \in [ 1..NumFaces ->
                 { [ select |-> b,
                     loops |-> Triangle(<< RInt(0), RInt(1) >>,
                                        << RInt(0), RInt(1) >>) ] :
                   b \in BOOLEAN } ]
  /\ images = NoImages
  /\ objects = << >>
  /\ matData = << >>
  /\ log = << >>
  /\ call = NoCall
  /\ clipboard = EmptyText

\* the log entry of a list operator
ListOp(op, index) ==
  [ op |-> op, index |-> index, case |-> "none", report |-> "",
    before |-> faces ]

\* the Remove button of record index (object mode)
MultiTexRemoveMat ==
  \E index \in 0..(Len(props.submats) - 1) :
    /\ props' = [ props EXCEPT !.submats = RemoveAt(@, index) ]
    /\ log' = Append(log, ListOp("remove", index))
    /\ UNCHANGED << faces, images, objects, matData, call, clipboard >>

\* the Move Up button of record index (object mode)
MultiTexMoveMatUp ==
  \E index \in 0..(Len(props.submats) - 1) :
    /\ props' = IF index > 0
                THEN [ props EXCEPT !.submats = MoveItem(@, index, index - 1) ]
                ELSE props
    /\ log' = Append(log, ListOp("moveUp", index))
    /\ UNCHANGED << faces, images, objects, matData, call, clipboard >>

\* the Move Down button of record index (object mode)
MultiTexMoveMatDown ==
  \E index \in 0..(Len(props.submats) - 1) :
    /\ props' = IF index < Len(props.submats) - 1
                THEN [ props EXCEPT !.submats = MoveItem(@, index, index + 1) ]
                ELSE props
    /\ log' = Append(log, ListOp("moveDown", index))
    /\ UNCHANGED << faces, images, objects, matData, call, clipboard >>

NextList ==
  \/ Len(log) < MaxListOps /\ MultiTexAssignMat
  \/ Len(log) < MaxListOps /\ MultiTexRemoveMat
  \/ Len(log) < MaxListOps /\ MultiTexMoveMatUp
  \/ Len(log) < MaxListOps /\ MultiTexMoveMatDown

SpecList == InitList /\ [][NextList]_vars

ListOps == { "remove", "moveUp", "moveDown" }

\* log[i] placed a freshly unwrapped selection in a cell of the grid and
\* only list operators ran from then to log[j]
PlacedThenListOps(i, j) ==
  /\ i \in DOMAIN log /\ j \in DOMAIN log /\ i < j
  /\ log[i].op = "assign" /\ log[i].case = "B"
  /\ InUnitSquare(log[i].before)
  /\ InGrid(log[i].index)
  /\ \A k \in (i + 1)..j : log[k].op \in ListOps

\* C14: Remove, Move Up and Move Down change no UV of any face, so a face
\* placed in cell K still resolves to cell K after any number of them,
\* whichever record, if any, then has index K.
C14_ListOpsKeepUvs ==
  /\ \A i \in DOMAIN log :
       log[i].op \in ListOps => After(i) = log[i].before
  /\ \A i \in DOMAIN log, j \in DOMAIN log :
       PlacedThenListOps(i, j) =>
         /\ After(j) = After(i)
         /\ \A f \in SelectedSet(After(j)) :
              SelectFaces(props, After(j), log[i].index)[f].select

\* a face was placed in the cell of the last record, and that record was
\* then removed: no record has the index of the face's cell
C14_Witness ==
  /\ Len(log) = 3
  /\ PlacedThenListOps(1, 3)
  /\ log[2].op = "moveUp"
  /\ log[3].op = "remove"
  /\ log[1].index >= Len(props.submats)
  /\ SelectedSet(faces) # {}
  /\ faces # log[1].before

\* C15: Assign with no face selected reports that no selected faces were
\* found and changes neither a UV nor a select flag of any face.
C15_NoSelectionNoOp ==
  \A i \in DOMAIN log :
    (log[i].op = "assign" /\ SelectedSet(log[i].before) = {}) =>
      /\ log[i].report = "No selected faces found"
      /\ After(i) = log[i].before

\* Assign ran with no face selected on a mesh with a face outside the cell
\* of its index
C15_Witness ==
  /\ Len(log) >= 1
  /\ log[Len(log)].op = "assign"
  /\ SelectedSet(log[Len(log)].before) = {}
  /\ log[Len(log)].report = "No selected faces found"
  /\ \E f \in DOMAIN faces :
       ~SelectFaces(props, faces, log[Len(log)].index)[f].select

(***************************************************************************)
(* SpecUv: getRowColFromUv applied to the points (i/UvDen, j/UvDen) with   *)
(* |i|, |j| <= UvSpan, on every grid the properties allow.                 *)
(***************************************************************************)
UvDen == 8
UvSpan == 12

UvPoints ==
  { << Rat(i, UvDen), Rat(j, UvDen) >> : i \in (-UvSpan)..UvSpan,
                                         j \in (-UvSpan)..UvSpan }

InitUv ==
  /\ props \in { [ DefaultProps EXCEPT !.numColumns = c, !.numRows = r ] :
                 c \in GridMin..GridMax, r \in GridMin..GridMax }
  /\ faces = << >>
  /\ images = NoImages
  /\ objects = << >>
  /\ matData = << >>
  /\ log = << >>
  /\ call = NoCall
  /\ clipboard = EmptyText

CallGetRowColFromUv ==
  /\ call = NoCall
  /\ \E uv \in UvPoints :
       call' = [ op |-> "getRowColFromUv", uv |-> uv,
                 rowCol |-> getRowColFromUv(props, uv) ]
  /\ UNCHANGED << props, faces, images, objects, matData, log, clipboard >>

NextUv == CallGetRowColFromUv

SpecUv == InitUv /\ [][NextUv]_vars

\* C16: getRowColFromUv maps every point (u, v), negative coordinates and
\* coordinates >= 1 included, to (floor(u*numColumns), floor(v*numRows)).
C16_FloorOfUv ==
  call.op = "getRowColFromUv" =>
    call.rowCol = << RFloor(RMul(call.uv[1], RInt(props.numColumns))),
                     RFloor(RMul(call.uv[2], RInt(props.numRows))) >>

\* the same for the points without a negative coordinate
FloorOfNonNegativeUv ==
  ( /\ call.op = "getRowColFromUv"
    /\ RLeq(RInt(0), call.uv[1]) /\ RLeq(RInt(0), call.uv[2]) ) =>
    call.rowCol = << RFloor(RMul(call.uv[1], RInt(props.numColumns))),
                     RFloor(RMul(call.uv[2], RInt(props.numRows))) >>

\* ---- rebuilding over earlier images ----

MaxRepaints == 2
MaxRepaintRecords == 1

InitRepaint ==
  /\ props \in { [ DefaultProps EXCEPT
                     !.numColumns = c, !.numRows = r, !.cellSize = s,
                     !.useRgbRoughness = rgb, !.useSmoothness = sm,
                     !.submats = l ] :
                 c \in GridMin..MaxDim, r \in GridMin..MaxDim,
                 s \in { CellSizeMin, MaxCell },
                 rgb \in BOOLEAN, sm \in BOOLEAN,
                 l \in UNION { SubMatLists(n) : n \in 0..MaxRepaintRecords } }
  /\ images \in { NoImages, StaleImages }
  /\ faces = << >>
  /\ objects = << >>
  /\ matData = << >>
  /\ log = << >>
  /\ call = NoCall
  /\ clipboard = EmptyText

\* the Build Material button, pressed again on the images it left
MultiTexRebuild ==
  /\ Len(log) < MaxRepaints
  /\ images' = buildMultiTexMaterial(props, images)
  /\ log' = Append(log, [ op |-> "build", imagesBefore |-> images ])
  /\ UNCHANGED << props, faces, objects, matData, call, clipboard >>

NextRepaint == MultiTexRebuild

SpecRepaint == InitRepaint /\ [][NextRepaint]_vars

\* the pixels of the rect getMatRect gives to index
RectPixels(index) ==
  LET matRect == getMatRect(props, index)
  IN  { << x, y >> : x \in matRect[1]..(matRect[3] - 1),
                     y \in matRect[2]..(matRect[4] - 1) }

\* what a rebuild stores in the cell of index, per image, from the config
\* and the records alone
ExpectedFill(index) ==
  IF index < Len(props.submats)
  THEN LET sm == props.submats[index + 1]
           rs == IF props.useSmoothness THEN RSub(RInt(1), sm.roughness)
                 ELSE sm.roughness
           q == RDiv(sm.emission_strength, RInt(props.maxEmissionStrength))
       IN  [ albedo |-> << sm.albedo[1], sm.albedo[2], sm.albedo[3], sm.alpha >>,
             metallic |-> << sm.metallic, sm.metallic,
                             IF props.useRgbRoughness THEN rs ELSE sm.metallic,
                             rs >>,
             emissive |-> << sm.emissive[1], sm.emissive[2], sm.emissive[3],
                             IF RLess(q, RInt(0)) THEN RInt(0)
                             ELSE IF RLess(RInt(1), q) THEN RInt(1) ELSE q >> ]
  ELSE [ albedo |-> << RInt(0), RInt(0), RInt(0), RInt(1) >>,
         metallic |-> << RInt(0), RInt(0),
                         IF props.useRgbRoughness THEN RInt(1) ELSE RInt(0),
                         RInt(1) >>,
         emissive |-> << RInt(0), RInt(0), RInt(0), RInt(1) >> ]

\* C17: the pixel rects of the indices 0 .. numColumns*numRows-1 lie inside
\* the texture, are pairwise disjoint and cover it; after a rebuild every
\* pixel of the three images holds the value that the config and the
\* records give to its cell, whatever the images held before, and a second
\* rebuild gives the same images.
C17_FullRepaint ==
  Rebuilt =>
    LET sizeX == props.numColumns * props.cellSize
        sizeY == props.numRows * props.cellSize
        all == { << x, y >> : x \in 0..(sizeX - 1), y \in 0..(sizeY - 1) }
    IN  /\ \A index \in GridCells : RectPixels(index) \subseteq all
        /\ \A i \in GridCells, j \in GridCells :
             i # j => RectPixels(i) \cap RectPixels(j) = {}
        /\ UNION { RectPixels(index) : index \in GridCells } = all
        /\ \A index \in GridCells : Cardinality(RectPixels(index))
                                      = props.cellSize * props.cellSize
        /\ \A name \in { "albedo", "metallic", "emissive" } :
             /\ images[name].size = << sizeX, sizeY >>
             /\ Len(images[name].pixels) = sizeX * sizeY * NumChannels
             /\ \A index \in GridCells : \A p \in RectPixels(index) :
                  PixelAt(images[name], p[1], p[2]) = ExpectedFill(index)[name]
        /\ Len(log) >= 2 => images = log[Len(log)].imagesBefore

\* a 2x2 atlas of two-pixel cells rebuilt over the images of a 1x2 atlas of
\* one-pixel cells, and then rebuilt again: the images were resized, every
\* cell was repainted and the second rebuild changed nothing
C17_Witness ==
  /\ Len(log) = 2
  /\ Rebuilt
  /\ log[1].imagesBefore = StaleImages
  /\ log[2].imagesBefore = images
  /\ props.numColumns = 2 /\ props.numRows = 2 /\ props.cellSize = MaxCell
  /\ Len(props.submats) = 1
  /\ images.albedo.size = << 2 * MaxCell, 2 * MaxCell >>
  /\ images # StaleImages


\* ---- which faces Select marks ----

\* the UV box of face f does not fit in one cell of the grid lines
\* u = c/numColumns, v = r/numRows (c, r any integers)
Straddles(fs, f) ==
  LET lo == UvMin(fs[f].loops)
      hi == UvMax(fs[f].loops)
      Fits(a, b, n) ==
        RLeq(RMul(b, RInt(n)), RInt(RFloor(RMul(a, RInt(n))) + 1))
  IN  \/ ~Fits(lo[1], hi[1], props.numColumns)
      \/ ~Fits(lo[2], hi[2], props.numRows)

\* C18: Select leaves every face whose UV box crosses a grid line deselected,
\* the lines u = 0 and v = 0 included, whatever the index.
C18_StraddlingNeverSelected ==
  \A i \in DOMAIN log :
    log[i].op = "select" =>
      \A f \in DOMAIN After(i) :
        Straddles(After(i), f) => ~After(i)[f].select

\* what the code guarantees: a face whose UV box crosses a grid line and has
\* no negative coordinate is left deselected
StraddlingNonNegativeNeverSelected ==
  \A i \in DOMAIN log :
    log[i].op = "select" =>
      \A f \in DOMAIN After(i) :
        LET lo == UvMin(After(i)[f].loops)
        IN  Straddles(After(i), f) /\ RLeq(RInt(0), lo[1])
              /\ RLeq(RInt(0), lo[2]) => ~After(i)[f].select

\* faces of a mesh whose UVs were laid out by hand: inside the bottom-left
\* cell, and to the right of the unit square
OutsideShapes ==
  { Triangle(<< Rat(1, 16), Rat(3, 16) >>, << Rat(1, 8), Rat(1, 4) >>),
    Triangle(<< Rat(9, 8), Rat(5, 4) >>, << Rat(5, 8), Rat(7, 8) >>) }

InitOutside ==
  /\ props \in { AddMats([ DefaultProps EXCEPT !.numColumns = c, !.numRows = r ],
                         NumSubMats) :
                 c \in GridMin..MaxDim, r \in GridMin..MaxDim }
  /\ faces \in [ 1..NumFaces ->
                 { [ select |-> b, loops |-> t ] :
                   b \in BOOLEAN, t \in OutsideShapes } ]
  /\ images = NoImages
  /\ objects = << >>
  /\ matData = << >>
  /\ log = << >>
  /\ call = NoCall
  /\ clipboard = EmptyText

NextOutside == Len(log) < MaxSelectOps /\ MultiTexSelectByMat

SpecOutside == InitOutside /\ [][NextOutside]_vars

\* every UV of face f lies inside the UV rect of the cell of index
InsideCell(fs, f, index) ==
  LET uvRect == getMatRectUv(props, index)
  IN  \A k \in DOMAIN fs[f].loops :
        LET uv == fs[f].loops[k]
        IN  /\ RLeq(uvRect[1], uv[1]) /\ RLeq(uv[1], uvRect[3])
            /\ RLeq(uvRect[2], uv[2]) /\ RLeq(uv[2], uvRect[4])

\* C19: Select of an index K of the grid marks only faces whose UVs all lie
\* inside the UV rect of cell K; a face outside the unit square is not
\* marked for an in-grid cell.
C19_SelectsOnlyCellFaces ==
  \A i \in DOMAIN log :
    log[i].op = "select" /\ InGrid(log[i].index) =>
      \A f \in SelectedSet(After(i)) : InsideCell(After(i), f, log[i].index)

\* what the code guarantees: a face of the unit square marked by Select of
\* an in-grid index lies inside the UV rect of that cell
SelectsOnlyCellFacesOfUnitSquare ==
  \A i \in DOMAIN log :
    log[i].op = "select" /\ InGrid(log[i].index) =>
      \A f \in SelectedSet(After(i)) :
        InUnitSquare(<< After(i)[f] >>) => InsideCell(After(i), f, log[i].index)


\* ---- the record list against the grid shape ----

MaxShapeOps == 3

InitShape ==
  /\ props \in { [ DefaultProps EXCEPT !.numColumns = c, !.numRows = r ] :
                 c \in GridMin..MaxDim, r \in GridMin..MaxDim }
  /\ faces = << >>
  /\ images = NoImages
  /\ objects = << >>
  /\ matData = << >>
  /\ log = << >>
  /\ call = NoCall
  /\ clipboard = EmptyText

\* the Add New Sub Material button
MultiTexAddMat ==
  /\ props' = AddMat(props)
  /\ log' = Append(log, ListOp("add", Len(props.submats)))
  /\ UNCHANGED << faces, images, objects, matData, call, clipboard >>

\* values typed into a grid field: below the range, inside it, above it
ShapeValues == { GridMin - 1, GridMax + 1 } \cup (GridMin..MaxDim)

\* the Num Columns field of the panel
SetNumColumns ==
  \E v \in ShapeValues :
    /\ props' = [ props EXCEPT !.numColumns = SetIntProp(v, GridMin, GridMax) ]
    /\ log' = Append(log, ListOp("numColumns", v))
    /\ UNCHANGED << faces, images, objects, matData, call, clipboard >>

\* the Num Rows field of the panel
SetNumRows ==
  \E v \in ShapeValues :
    /\ props' = [ props EXCEPT !.numRows = SetIntProp(v, GridMin, GridMax) ]
    /\ log' = Append(log, ListOp("numRows", v))
    /\ UNCHANGED << faces, images, objects, matData, call, clipboard >>

NextShape ==
  \/ Len(log) < MaxShapeOps /\ MultiTexAddMat
  \/ Len(log) < MaxShapeOps /\ MultiTexRemoveMat
  \/ Len(log) < MaxShapeOps /\ SetNumColumns
  \/ Len(log) < MaxShapeOps /\ SetNumRows

SpecShape == InitShape /\ [][NextShape]_vars

\* record index K addresses a cell of the grid and its UV rect lies in the
\* unit square
AddressesCell(K) ==
  LET rowCol == getMatRowCol(props, K)
      uvRect == getMatRectUv(props, K)
  IN  /\ K < props.numColumns * props.numRows
      /\ 0 <= rowCol[1] /\ rowCol[1] < props.numColumns
      /\ 0 <= rowCol[2] /\ rowCol[2] < props.numRows
      /\ RLeq(RInt(0), uvRect[1]) /\ RLeq(uvRect[3], RInt(1))
      /\ RLeq(RInt(0), uvRect[2]) /\ RLeq(uvRect[4], RInt(1))

\* C20: after any sequence of Add, Remove and grid-shape changes every
\* record index K, 0 <= K < number of records, addresses a cell inside the
\* grid: K < numColumns*numRows, its row lies in [0, numRows) and its UV
\* rect lies inside the unit square.
C20_RecordsAddressCells ==
  \A K \in 0..(Len(props.submats) - 1) : AddressesCell(K)

\* what the code guarantees: the record indices below numColumns*numRows
\* address cells of the grid
RecordsInGridAddressCells ==
  \A K \in 0..(Len(props.submats) - 1) :
    K < props.numColumns * props.numRows => AddressesCell(K)

=============================================================================
